---- MODULE Spec2Model ----
(***************************************************************************)
(* Model of the Paper MCP client of packages/coding-agent                  *)
(* (src/core/tools/paper-mcp.ts, here src/unnamed/part_001 lines 476-923): *)
(* the JSON-RPC helper callPaperMcp, the result formatter formatMcpResult, *)
(* the tool factory createPaperTool and the catalog paperTools.            *)
(*                                                                         *)
(* JavaScript values are tagged records.  A string is a sequence of        *)
(* tokens: a run of characters, a single line-terminator character, or a   *)
(* piece of the JSON text of a value.  The event loop is modelled one      *)
(* macrotask per action: an action runs a continuation of an async         *)
(* function up to its next await (or its return).                          *)
(***************************************************************************)
EXTENDS Integers, Sequences, FiniteSets, TLC

\* ------------------------------------------------------------------------
\* Bounds of the model
\* ------------------------------------------------------------------------
MaxCalls == 2
MaxUpdates == 2
MaxContent == 3
MaxProbes == 2

\* ------------------------------------------------------------------------
\* JavaScript values
\* ------------------------------------------------------------------------
Undefined == [t |-> "undefined"]
None == [t |-> "none"]
Null == [t |-> "null"]
Bool(b) == [t |-> "boolean", v |-> b]
Num(n) == [t |-> "number", v |-> n]
Str(s) == [t |-> "string", v |-> s]
Arr(s) == [t |-> "array", v |-> s]
Obj(s) == [t |-> "object", v |-> s]
P(key, val) == [k |-> key, v |-> val]

\* tokens of a string
Ch(s) == [k |-> "chars", s |-> s]
LF == [k |-> "LF"]
CR == [k |-> "CR"]
LS == [k |-> "U+2028"]
PS == [k |-> "U+2029"]
Js(val, lay, p, n) == [k |-> "json", v |-> val, lay |-> lay, p |-> p, n |-> n]
S(s) == Str(<<Ch(s)>>)

\* typeof x === "object" (true of null and of arrays)
TypeofObject(x) == x.t \in {"object", "array", "null"}

\* ToBoolean
Truthy(x) ==
  CASE x.t \in {"undefined", "null"} -> FALSE
    [] x.t = "boolean" -> x.v
    [] x.t = "number" -> x.v # 0
    [] x.t = "string" -> x.v # <<>>
    [] OTHER -> TRUE

\* o.key for a value o that is neither null nor undefined
Has(o, key) == o.t = "object" /\ \E i \in 1..Len(o.v) : o.v[i].k = key
Get(o, key) ==
  IF Has(o, key)
  THEN o.v[CHOOSE i \in 1..Len(o.v) : o.v[i].k = key /\ \A j \in 1..(i-1) : o.v[j].k # key].v
  ELSE Undefined

\* o.key throws a TypeError when o is null or undefined
Nullish(o) == o.t \in {"undefined", "null"}

\* String(x) / template-literal conversion `${x}`
ToStr(x) ==
  CASE x.t = "string" -> x.v
    [] x.t = "undefined" -> <<Ch("undefined")>>
    [] x.t = "null" -> <<Ch("null")>>
    [] x.t = "boolean" -> <<Ch(IF x.v THEN "true" ELSE "false")>>
    [] x.t = "number" -> <<Ch(ToString(x.v))>>
    [] x.t = "array" -> <<Ch("[array elements joined by ,]")>>
    [] OTHER -> <<Ch("[object Object]")>>

\* String.prototype.includes for a needle that is one run of characters
Includes(s, needle) == \E i \in 1..Len(s) : s[i] = Ch(needle)

\* ------------------------------------------------------------------------
\* JSON.stringify and JSON.parse
\* ------------------------------------------------------------------------
\* What JSON.stringify keeps of a value: a property whose value is undefined
\* is left out, an undefined array element becomes null.
RECURSIVE KeepDefined(_)
RECURSIVE Jsonify(_)
KeepDefined(props) ==
  IF props = <<>> THEN <<>>
  ELSE IF Head(props).v = Undefined THEN KeepDefined(Tail(props))
  ELSE <<P(Head(props).k, Jsonify(Head(props).v))>> \o KeepDefined(Tail(props))
Jsonify(x) ==
  CASE x.t = "array" ->
         Arr([i \in 1..Len(x.v) |-> IF x.v[i] = Undefined THEN Null ELSE Jsonify(x.v[i])])
    [] x.t = "object" -> Obj(KeepDefined(x.v))
    [] OTHER -> x

\* a raw U+2028 / U+2029 inside a string of the value: JSON.stringify writes it
\* out unescaped, and JSON.parse accepts it inside a string
RECURSIVE HasSeparator(_)
HasSeparator(x) ==
  CASE x.t = "string" -> \E i \in 1..Len(x.v) : x.v[i] \in {LS, PS}
    [] x.t = "array" -> \E i \in 1..Len(x.v) : HasSeparator(x.v[i])
    [] x.t = "object" -> \E i \in 1..Len(x.v) : HasSeparator(x.v[i].v)
    [] OTHER -> FALSE

\* JSON.stringify(x, null, 2) breaks lines inside a non-empty object or array
Multiline(x) == x.t \in {"object", "array"} /\ x.v # <<>>

\* The text of a JSON value as the regular expression sees it: pieces of JSON
\* separated by the line terminators the text contains (the line breaks of
\* the indented layout, then a separator character inside a string).
Breaks(x, lay) ==
  (IF lay = "indented" /\ Multiline(x) THEN <<LF>> ELSE <<>>)
  \o (IF HasSeparator(x) THEN <<LS>> ELSE <<>>)
JsonText(x, lay) ==
  LET b == Breaks(x, lay)
      n == Len(b) + 1
  IN  [i \in 1..(2 * n - 1) |->
         IF i % 2 = 1 THEN Js(x, lay, (i + 1) \div 2, n) ELSE b[i \div 2]]

\* JSON.stringify(x) / JSON.stringify(x, null, 2): undefined for undefined
JSONstringify(x, lay) ==
  IF x = Undefined THEN Undefined ELSE Str(JsonText(Jsonify(x), lay))

\* JSON.parse: whitespace around the document is skipped; the text parses
\* exactly when it is the complete text of one value
JsonWhitespace == {LF, CR}
RECURSIVE TrimLeft(_)
TrimLeft(s) == IF s # <<>> /\ Head(s) \in JsonWhitespace THEN TrimLeft(Tail(s)) ELSE s
RECURSIVE TrimRight(_)
TrimRight(s) ==
  IF s # <<>> /\ s[Len(s)] \in JsonWhitespace THEN TrimRight(SubSeq(s, 1, Len(s) - 1)) ELSE s
JSONparse(text) ==
  LET d == TrimRight(TrimLeft(text))
  IN  IF d # <<>> /\ d[1].k = "json" /\ d = JsonText(d[1].v, d[1].lay)
      THEN [ok |-> TRUE, value |-> d[1].v]
      ELSE [ok |-> FALSE, value |-> Undefined]

\* ------------------------------------------------------------------------
\* text.match(/^data: (.+)$/m)
\* ------------------------------------------------------------------------
\* "." matches any character but a line terminator; with the m flag "^" and
\* "$" match at the start and end of every line.
LineTerminators == {LF, CR, LS, PS}
DataPrefix == Ch("data: ")
LineStart(text, i) == i = 1 \/ text[i - 1] \in LineTerminators
LineEnd(text, i) ==
  CHOOSE j \in i..Len(text) :
    /\ \A m \in i..j : text[m] \notin LineTerminators
    /\ (j = Len(text) \/ text[j + 1] \in LineTerminators)
MatchStarts(text) ==
  {i \in 1..(Len(text) - 1) :
     LineStart(text, i) /\ text[i] = DataPrefix /\ text[i + 1] \notin LineTerminators}
DataMatch(text) ==
  IF MatchStarts(text) = {}
  THEN [matched |-> FALSE, group |-> <<>>]
  ELSE LET i == CHOOSE a \in MatchStarts(text) : \A b \in MatchStarts(text) : a <= b
       IN  [matched |-> TRUE, group |-> SubSeq(text, i + 1, LineEnd(text, i + 1))]

\* ------------------------------------------------------------------------
\* callPaperMcp: the request envelope and the continuations after each await
\* ------------------------------------------------------------------------
\* the value callPaperMcp returns
Ok(res) == [ok |-> TRUE, result |-> res, error |-> Undefined]
Fail(msg) == [ok |-> FALSE, result |-> Undefined, error |-> Str(msg)]

\* the counter read but not advanced
PostIncrementStuck(n) == [value |-> n, next |-> n]

\* const id = requestId++ : the id taken and the counter left behind
PostIncrement(n) == [value |-> n, next |-> n + 1]

\* the request body, JSON.stringify({jsonrpc, method, params: {name, arguments}, id})
RequestBody(toolName, args, id) ==
  JSONstringify(Obj(<<P("jsonrpc", S("2.0")),
                      P("method", S("tools/call")),
                      P("params", Obj(<<P("name", S(toolName)), P("arguments", args)>>)),
                      P("id", Num(id))>>), "compact")

\* exceptions
Err(msg) == [isError |-> TRUE, message |-> msg, value |-> Undefined]
AbortError == Err(<<Ch("This operation was aborted")>>)
SyntaxError == Err(<<Ch("Unexpected token in JSON")>>)
NullTypeError == Err(<<Ch("Cannot read properties of null (reading 'error')")>>)

NotRunningHint ==
  <<Ch("Paper Desktop is not running. Open a file in Paper Desktop to start the MCP server (http://127.0.0.1:29979/mcp).")>>

\* a catch block without the ECONNREFUSED / "fetch failed" test
CatchResultGeneric(err) ==
  Fail(<<Ch("Paper MCP connection error: ")>> \o (IF err.isError THEN err.message ELSE ToStr(err.value)))

\* the catch block
CatchResult(err) ==
  LET message == IF err.isError THEN err.message ELSE ToStr(err.value)
  IN  IF Includes(message, "ECONNREFUSED") \/ Includes(message, "fetch failed")
      THEN Fail(NotRunningHint)
      ELSE Fail(<<Ch("Paper MCP connection error: ")>> \o message)

\* a test that takes every status below 400 for a success
RespOkBelow400(status) == status < 400

\* resp.ok
RespOk(status) == status >= 200 /\ status <= 299

\* a status failure that leaves the status out of its message
StatusFailureNoStatus(status, statusText) == Fail(<<Ch("Paper MCP returned an error")>>)

\* if (!resp.ok) return {ok: false, error: `Paper MCP returned ${status} ${statusText}`}
StatusFailure(status, statusText) ==
  Fail(<<Ch("Paper MCP returned "), Ch(ToString(status)), Ch(" ")>> \o statusText)

\* a body handler that never looks at json.error
HandleBodyNoErrorCheck(text) ==
  LET dataMatch == DataMatch(text)
      parsed == IF dataMatch.matched THEN JSONparse(dataMatch.group) ELSE JSONparse(text)
  IN  IF ~parsed.ok THEN CatchResult(SyntaxError)
      ELSE IF Nullish(parsed.value) THEN CatchResult(NullTypeError)
      ELSE Ok(Get(parsed.value, "result"))

\* a body handler that fails on any payload with an error member
HandleBodyErrorMember(text) ==
  LET dataMatch == DataMatch(text)
      parsed == IF dataMatch.matched THEN JSONparse(dataMatch.group) ELSE JSONparse(text)
      json == parsed.value
  IN  IF ~parsed.ok THEN CatchResult(SyntaxError)
      ELSE IF Nullish(json) THEN CatchResult(NullTypeError)
      ELSE IF Has(json, "error")
           THEN Fail(<<Ch("Paper MCP error: ")>> \o ToStr(Get(Get(json, "error"), "message")))
           ELSE Ok(Get(json, "result"))

\* from the text of the body to the value returned, parse errors caught
HandleBody(text) ==
  LET dataMatch == DataMatch(text)
      parsed == IF dataMatch.matched THEN JSONparse(dataMatch.group) ELSE JSONparse(text)
      json == parsed.value
  IN  IF ~parsed.ok THEN CatchResult(SyntaxError)
      ELSE IF Nullish(json) THEN CatchResult(NullTypeError)
      ELSE IF Truthy(Get(json, "error"))
           THEN Fail(<<Ch("Paper MCP error: ")>> \o ToStr(Get(Get(json, "error"), "message")))
           ELSE Ok(Get(json, "result"))

\* ------------------------------------------------------------------------
\* formatMcpResult
\* ------------------------------------------------------------------------
TextBlock(text) == [type |-> "text", text |-> text, data |-> Undefined, mimeType |-> Undefined]
ImageBlock(data, mimeType) ==
  [type |-> "image", text |-> Undefined, data |-> data, mimeType |-> mimeType]

Fallback(result) == <<TextBlock(JSONstringify(result, "indented"))>>

\* an iteration that copies mimeType without the image/png default
PartsOfNoDefault(item) ==
  IF ~(item.t \in {"object", "array"}) THEN <<>>
  ELSE IF Get(item, "type") = S("text") /\ Get(item, "text").t = "string"
       THEN <<TextBlock(Get(item, "text"))>>
  ELSE IF Get(item, "type") = S("image") /\ Get(item, "data").t = "string"
       THEN <<ImageBlock(Get(item, "data"), Get(item, "mimeType"))>>
  ELSE <<>>

\* one iteration of the loop over content: the blocks the item adds to parts
PartsOf(item) ==
  IF ~(item.t \in {"object", "array"}) THEN <<>>
  ELSE IF Get(item, "type") = S("text") /\ Get(item, "text").t = "string"
       THEN <<TextBlock(Get(item, "text"))>>
  ELSE IF Get(item, "type") = S("image") /\ Get(item, "data").t = "string"
       THEN <<ImageBlock(Get(item, "data"),
                         IF Get(item, "mimeType").t = "string"
                         THEN Get(item, "mimeType") ELSE S("image/png"))>>
  ELSE <<>>

RECURSIVE Parts(_)
Parts(content) ==
  IF content = <<>> THEN <<>> ELSE PartsOf(Head(content)) \o Parts(Tail(content))

formatMcpResult(result) ==
  IF ~Truthy(result) \/ ~TypeofObject(result) THEN Fallback(result)
  ELSE IF Get(result, "content").t # "array" THEN Fallback(result)
  ELSE IF Parts(Get(result, "content").v) = <<>> THEN Fallback(result)
  ELSE Parts(Get(result, "content").v)

\* ------------------------------------------------------------------------
\* paperTools: the catalog, and each definition's mapArgs
\* ------------------------------------------------------------------------
Tool(name, mcpName, mapped) == [name |-> name, mcpName |-> mcpName, mapArgs |-> mapped]

paperTools ==
  << Tool("paper_get_basic_info", "get_basic_info", FALSE),
     Tool("paper_get_selection", "get_selection", FALSE),
     Tool("paper_get_node_info", "get_node_info", TRUE),
     Tool("paper_get_children", "get_children", TRUE),
     Tool("paper_get_tree_summary", "get_tree_summary", TRUE),
     Tool("paper_get_screenshot", "get_screenshot", TRUE),
     Tool("paper_get_jsx", "get_jsx", TRUE),
     Tool("paper_get_computed_styles", "get_computed_styles", TRUE),
     Tool("paper_get_fill_image", "get_fill_image", TRUE),
     Tool("paper_get_font_family_info", "get_font_family_info", TRUE),
     Tool("paper_get_guide", "get_guide", FALSE),
     Tool("paper_find_placement", "find_placement", FALSE),
     Tool("paper_create_artboard", "create_artboard", FALSE),
     Tool("paper_write_html", "write_html", TRUE),
     Tool("paper_set_text_content", "set_text_content", TRUE),
     Tool("paper_rename_nodes", "rename_nodes", TRUE),
     Tool("paper_duplicate_nodes", "duplicate_nodes", TRUE),
     Tool("paper_update_styles", "update_styles", TRUE),
     Tool("paper_delete_nodes", "delete_nodes", TRUE),
     Tool("paper_start_working_on_nodes", "start_working_on_nodes", TRUE),
     Tool("paper_finish_working_on_nodes", "finish_working_on_nodes", TRUE) >>

ToolNames == {paperTools[i].name : i \in 1..Len(paperTools)}
Def(name) == paperTools[CHOOSE i \in 1..Len(paperTools) : paperTools[i].name = name]

\* the tools the README lists under "Paper tools": Read, then Write
ReadmeRead ==
  {"paper_get_basic_info", "paper_get_selection", "paper_get_screenshot", "paper_get_jsx",
   "paper_get_computed_styles", "paper_get_tree_summary", "paper_get_node_info",
   "paper_get_children", "paper_get_fill_image", "paper_get_font_family_info",
   "paper_get_guide", "paper_find_placement"}
ReadmeWrite ==
  {"paper_create_artboard", "paper_write_html", "paper_set_text_content",
   "paper_update_styles", "paper_rename_nodes", "paper_duplicate_nodes",
   "paper_delete_nodes", "paper_finish_working_on_nodes"}

\* ...(a.key !== undefined ? { as: a.key } : {})
Spread(a, key, as) == IF Get(a, key) # Undefined THEN <<P(as, Get(a, key))>> ELSE <<>>

\* what a mapArgs call does: it returns an object or throws a TypeError
Returned(args) == [threw |-> FALSE, args |-> args]
Threw == [threw |-> TRUE, args |-> Undefined]

SetTextItem(u) == Obj(<<P("nodeId", Get(u, "id")), P("textContent", Get(u, "text"))>>)
RenameItem(u) == Obj(<<P("nodeId", Get(u, "id")), P("name", Get(u, "name"))>>)
DuplicateItem(id) == Obj(<<P("id", id)>>)
UpdateStylesItem(u) ==
  Obj(<<P("nodeIds", Arr(<<Get(u, "id")>>)), P("styles", Get(u, "styles"))>>)

\* callbacks that spread the caller's item before adding the renamed keys
MapCallbackSpread(name, u) ==
  CASE name = "paper_set_text_content" -> Obj(u.v \o SetTextItem(u).v)
    [] name = "paper_rename_nodes" -> Obj(<<P("id", Get(u, "id"))>> \o RenameItem(u).v)
    [] name = "paper_duplicate_nodes" -> DuplicateItem(u)
    [] OTHER -> Obj(u.v \o UpdateStylesItem(u).v)

\* the callback each batch tool hands to map
MapCallback(name, u) ==
  CASE name = "paper_set_text_content" -> SetTextItem(u)
    [] name = "paper_rename_nodes" -> RenameItem(u)
    [] name = "paper_duplicate_nodes" -> DuplicateItem(u)
    [] OTHER -> UpdateStylesItem(u)

\* (x as Array<...>).map(callback): a TypeError when x has no map method (it
\* is not an array) or when the callback reads a property of a null or
\* undefined element (every callback but that of paper_duplicate_nodes does)
MapItems(name, x) ==
  IF x.t # "array" THEN Threw
  ELSE IF name # "paper_duplicate_nodes" /\ \E i \in 1..Len(x.v) : Nullish(x.v[i]) THEN Threw
  ELSE Returned(Arr([i \in 1..Len(x.v) |-> MapCallback(name, x.v[i])]))

Wrap(key, mapped) ==
  IF mapped.threw THEN Threw ELSE Returned(Obj(<<P(key, mapped.args)>>))

mapArgs(name, a) ==
  CASE name \in {"paper_get_node_info", "paper_get_children", "paper_get_fill_image"} ->
         Returned(Obj(<<P("nodeId", Get(a, "id"))>>))
    [] name = "paper_get_tree_summary" ->
         Returned(Obj(<<P("nodeId", Get(a, "id"))>> \o Spread(a, "depth", "depth")))
    [] name = "paper_get_screenshot" ->
         Returned(Obj(<<P("nodeId", Get(a, "id"))>> \o Spread(a, "scale", "scale")))
    [] name = "paper_get_jsx" ->
         Returned(Obj(<<P("nodeId", Get(a, "id"))>> \o Spread(a, "styleFormat", "format")))
    [] name \in {"paper_get_computed_styles", "paper_delete_nodes",
                 "paper_start_working_on_nodes"} ->
         Returned(Obj(<<P("nodeIds", Get(a, "ids"))>>))
    [] name = "paper_get_font_family_info" ->
         Returned(Obj(<<P("familyNames", Arr(<<Get(a, "family")>>))>>))
    [] name = "paper_write_html" ->
         Returned(Obj(<<P("targetNodeId", Get(a, "id")), P("html", Get(a, "html"))>>
                      \o Spread(a, "mode", "mode")))
    [] name = "paper_set_text_content" ->
         Wrap("updates", MapItems(name, Get(a, "updates")))
    [] name = "paper_rename_nodes" ->
         Wrap("updates", MapItems(name, Get(a, "updates")))
    [] name = "paper_duplicate_nodes" ->
         Wrap("nodes", MapItems(name, Get(a, "ids")))
    [] name = "paper_update_styles" ->
         Wrap("updates", MapItems(name, Get(a, "updates")))
    [] name = "paper_finish_working_on_nodes" ->
         IF Truthy(Get(a, "ids")) THEN Returned(Obj(<<P("nodeIds", Get(a, "ids"))>>))
         ELSE Returned(Obj(<<>>))
    [] OTHER -> Returned(a)

\* ------------------------------------------------------------------------
\* createPaperTool(def).execute
\* ------------------------------------------------------------------------
\* let args = (params && typeof params === "object" ? params : {})
CoerceParams(params) ==
  IF Truthy(params) /\ TypeofObject(params) THEN params ELSE Obj(<<>>)

\* an execute that sends the caller's params as they are
MappedArgsUnmapped(name, params) == Returned(CoerceParams(params))

\* if (def.mapArgs) args = def.mapArgs(args)
MappedArgs(name, params) ==
  IF Def(name).mapArgs THEN mapArgs(name, CoerceParams(params))
  ELSE Returned(CoerceParams(params))

\* an execute whose details carry both fields whatever the outcome
ToolResultBothDetails(name, r) ==
  [content |-> IF ~r.ok THEN <<TextBlock(r.error)>> ELSE formatMcpResult(r.result),
   details |-> Obj(<<P("mcpTool", S(Def(name).mcpName)), P("error", r.error)>>)]

\* what execute returns from the value callPaperMcp returned
ToolResult(name, r) ==
  IF ~r.ok
  THEN [content |-> <<TextBlock(r.error)>>, details |-> Obj(<<P("error", r.error)>>)]
  ELSE [content |-> formatMcpResult(r.result),
        details |-> Obj(<<P("mcpTool", S(Def(name).mcpName))>>)]

\* ------------------------------------------------------------------------
\* What the callers and the remote can do
\* ------------------------------------------------------------------------
Calls == 1..MaxCalls

\* params the agent framework may hand to execute
NodeIds == {"n1", "n2"}
RECURSIVE SeqsUpTo(_, _)
SeqsUpTo(items, n) ==
  IF n = 0 THEN {<<>>}
  ELSE SeqsUpTo(items, n - 1)
       \cup {Append(q, x) : q \in {r \in SeqsUpTo(items, n - 1) : Len(r) = n - 1}, x \in items}

UpdateItems(name) ==
  CASE name = "paper_set_text_content" ->
         {Obj(<<P("id", S(n)), P("text", S("Hello"))>>) : n \in NodeIds}
    [] name = "paper_rename_nodes" ->
         {Obj(<<P("id", S(n)), P("name", S("Header"))>>) : n \in NodeIds}
    [] OTHER ->
         {Obj(<<P("id", S(n)), P("styles", Obj(<<P("color", S("red"))>>))>>) : n \in NodeIds}

\* params that conform to the tool's TypeBox schema
Conforming(name) ==
  CASE name \in {"paper_get_basic_info", "paper_get_selection"} -> {Obj(<<>>)}
    [] name \in {"paper_get_node_info", "paper_get_children", "paper_get_fill_image"} ->
         {Obj(<<P("id", S("n1"))>>)}
    [] name = "paper_get_tree_summary" ->
         {Obj(<<P("id", S("n1"))>>), Obj(<<P("id", S("n1")), P("depth", Num(2))>>)}
    [] name = "paper_get_screenshot" ->
         {Obj(<<P("id", S("n1"))>>), Obj(<<P("id", S("n1")), P("scale", Num(2))>>)}
    [] name = "paper_get_jsx" ->
         {Obj(<<P("id", S("n1"))>>),
          Obj(<<P("id", S("n1")), P("styleFormat", S("tailwind"))>>)}
    [] name \in {"paper_get_computed_styles", "paper_duplicate_nodes", "paper_delete_nodes",
                 "paper_start_working_on_nodes", "paper_finish_working_on_nodes"} ->
         {Obj(<<P("ids", Arr(<<>>))>>), Obj(<<P("ids", Arr(<<S("n1"), S("n2")>>))>>)}
    [] name = "paper_get_font_family_info" -> {Obj(<<P("family", S("Inter"))>>)}
    [] name = "paper_get_guide" -> {Obj(<<P("topic", S("figma-import"))>>)}
    [] name = "paper_find_placement" ->
         {Obj(<<>>), Obj(<<P("width", Num(400)), P("height", Num(300))>>)}
    [] name = "paper_create_artboard" -> {Obj(<<>>), Obj(<<P("name", S("Home"))>>)}
    [] name = "paper_write_html" ->
         {Obj(<<P("id", S("n1")), P("html", S("<div/>"))>>),
          Obj(<<P("id", S("n1")), P("html", S("<div/>")), P("mode", S("replace"))>>)}
    [] OTHER ->
         {Obj(<<P("updates", Arr(u))>>) : u \in SeqsUpTo(UpdateItems(name), MaxUpdates)}

\* params of any shape: absent, not an object, an object without the fields
\* the schema declares, a batch whose array holds a null
AnyShape(name) ==
  Conforming(name)
  \cup {Undefined, Null, S("n1"), Obj(<<>>), Arr(<<>>),
        Obj(<<P("updates", Arr(<<Null>>))>>), Obj(<<P("ids", S("n1"))>>)}

\* HTTP statuses the remote may answer with
Status(code, text) == [status |-> code, statusText |-> text]
Statuses ==
  {Status(200, <<Ch("OK")>>), Status(204, <<Ch("No Content")>>),
   Status(404, <<Ch("Not Found")>>), Status(500, <<>>),
   Status(503, <<Ch("Service Unavailable")>>)}

\* exceptions fetch may reject with, and resp.text() may reject with
FetchErrors ==
  {Err(<<Ch("fetch failed")>>),
   Err(<<Ch("connect "), Ch("ECONNREFUSED"), Ch(" 127.0.0.1:29979")>>),
   Err(<<Ch("other side closed")>>)}
ConnectionRefused ==
  {Err(<<Ch("fetch failed")>>),
   Err(<<Ch("connect "), Ch("ECONNREFUSED"), Ch(" 127.0.0.1:29979")>>)}
BodyErrors == {Err(<<Ch("terminated")>>)}

\* JSON-RPC payloads the remote may answer with
Envelope(fields) == Obj(<<P("jsonrpc", S("2.0")), P("id", Num(1))>> \o fields)
TextItem(s) == Obj(<<P("type", S("text")), P("text", s)>>)
ResultOf(items) == Obj(<<P("content", Arr(items))>>)
RemoteError(msg) == Obj(<<P("code", Num(-32000)), P("message", S(msg))>>)

HelloPayload == Envelope(<<P("result", ResultOf(<<TextItem(S("hello"))>>))>>)
SeparatorPayload ==
  Envelope(<<P("result", ResultOf(<<TextItem(Str(<<Ch("line one"), LS, Ch("line two")>>))>>))>>)
ErrorPayload == Envelope(<<P("error", RemoteError("Node not found"))>>)
Payloads ==
  {HelloPayload, SeparatorPayload, ErrorPayload,
   Envelope(<<P("error", RemoteError("Node not found")), P("result", ResultOf(<<>>))>>),
   Envelope(<<P("error", Null), P("result", ResultOf(<<TextItem(S("hello"))>>))>>),
   Envelope(<<P("error", Obj(<<P("code", Num(-32000))>>))>>),
   Envelope(<<P("result", Null)>>),
   Envelope(<<>>),
   Null}

\* the bodies a 2xx response may carry: the payload as raw JSON (compact or
\* indented), or as one server-sent event (with or without an event: line)
Forms == {"raw", "indented", "sse", "sse-event"}
BodyText(payload, form) ==
  CASE form = "raw" -> JsonText(payload, "compact")
    [] form = "indented" -> JsonText(payload, "indented")
    [] form = "sse" -> <<DataPrefix>> \o JsonText(payload, "compact") \o <<LF, LF>>
    [] OTHER ->
         <<Ch("event: message"), LF, DataPrefix>> \o JsonText(payload, "compact") \o <<LF, LF>>
\* a body the remote sends: the payload it carries, its form and its text
Body(payload, form) == [payload |-> payload, form |-> form, text |-> BodyText(payload, form)]
NotJson == [payload |-> None, form |-> "not-json", text |-> <<Ch("<html>Bad Gateway</html>")>>]
Bodies == {Body(p, f) : p \in Payloads, f \in Forms} \cup {NotJson}

\* the answer of a remote that names the method it was asked for in its
\* result, under an id of its choosing
EchoText(request) == Str(<<Ch("result of ")>> \o Get(Get(request, "params"), "name").v)
EchoPayload(request, id) ==
  Obj(<<P("jsonrpc", S("2.0")), P("id", Num(id)),
        P("result", ResultOf(<<TextItem(EchoText(request))>>))>>)

\* raw results the formatter may be given
ContentItems ==
  {TextItem(S("hello")), TextItem(Str(<<>>)), TextItem(Num(5)),
   Obj(<<P("type", S("image")), P("data", S("AAA")), P("mimeType", S("image/jpeg"))>>),
   Obj(<<P("type", S("image")), P("data", S("AAA"))>>),
   Obj(<<P("type", S("image")), P("data", S("AAA")), P("mimeType", Num(5))>>),
   Obj(<<P("type", S("image")), P("mimeType", S("image/jpeg"))>>),
   Obj(<<P("type", S("bogus"))>>), Null, S("hello")}
FormatInputs ==
  {ResultOf(items) : items \in SeqsUpTo(ContentItems, MaxContent)}
  \cup {Undefined, Null, S("done"), Num(0), Arr(<<>>), Obj(<<>>),
        Obj(<<P("content", S("hello"))>>), Obj(<<P("content", Null)>>),
        Obj(<<P("isError", Bool(FALSE)), P("content", Arr(<<TextItem(S("hello"))>>))>>)}

\* isPaperRunning: the calls made of it (the status bar polls), the statuses
\* the remote may answer the probe with, and what its fetch may reject with
Probes == 1..MaxProbes
ProbeStatuses ==
  Statuses \cup {Status(299, <<>>), Status(304, <<Ch("Not Modified")>>),
                 Status(400, <<Ch("Bad Request")>>)}
TimeoutError == Err(<<Ch("The operation was aborted due to timeout")>>)
ProbeErrors == FetchErrors \cup {Err(<<Ch("unable to verify the first certificate")>>)}

\* the inputs a run draws from
Scope(calls, names, anyShape, statuses, fetchErrors, bodies) ==
  [calls |-> calls, names |-> names, anyShape |-> anyShape, statuses |-> statuses,
   fetchErrors |-> fetchErrors, bodies |-> bodies]
ParamsOf(sc, name) == IF sc.anyShape THEN AnyShape(name) ELSE Conforming(name)

\* ------------------------------------------------------------------------
\* State
\* ------------------------------------------------------------------------
VARIABLES
  requestId,   \* the module-level counter: let requestId = 1
  pc,          \* where each execute call stands: idle, fetch (awaiting fetch),
               \* body (awaiting resp.text()), returned, rejected (it threw)
  tool,        \* the tool each call was made on
  timer,       \* each call's setTimeout handle: unset, armed, cleared, fired
  controller,  \* each call's AbortController: TRUE once controller.abort() ran
  signal,      \* the AbortSignal given to each call: none, live, aborted
  listener,    \* the abort listener of each call is registered and has not run
  returned,    \* what callPaperMcp returned to each call
  result,      \* what execute resolved to
  sent,        \* the request envelopes put on the wire, in order
  heard,       \* history: what reached each call (responses, errors, aborts)
  fmtPc,       \* the formatter run on its own: idle, start, done
  fmtInput,    \* its raw result
  fmtOutput,   \* the blocks it returned
  probePc,     \* where each isPaperRunning call stands: idle, fetch, done
  probeHeard,  \* history: what reached each isPaperRunning call
  probeResult  \* what each isPaperRunning call returned

vars == <<requestId, pc, tool, timer, controller, signal, listener, returned, result,
          sent, heard, fmtPc, fmtInput, fmtOutput, probePc, probeHeard, probeResult>>
callVars == <<requestId, pc, tool, timer, controller, signal, listener, returned, result,
              sent, heard>>
fmtVars == <<fmtPc, fmtInput, fmtOutput>>
probeVars == <<probePc, probeHeard, probeResult>>

\* an abort that still reaches a call that has returned
InFlightOrReturned(c) == pc[c] \in {"fetch", "body", "returned"}

InFlight(c) == pc[c] \in {"fetch", "body"}

InitCalls ==
  /\ requestId = 1
  /\ pc = [c \in Calls |-> "idle"]
  /\ tool = [c \in Calls |-> ""]
  /\ timer = [c \in Calls |-> "unset"]
  /\ controller = [c \in Calls |-> FALSE]
  /\ signal = [c \in Calls |-> "none"]
  /\ listener = [c \in Calls |-> FALSE]
  /\ returned = [c \in Calls |-> None]
  /\ result = [c \in Calls |-> None]
  /\ sent = <<>>
  /\ heard = [c \in Calls |-> <<>>]

InitProbes ==
  /\ probePc = [p \in Probes |-> "idle"]
  /\ probeHeard = [p \in Probes |-> None]
  /\ probeResult = [p \in Probes |-> None]

Init ==
  /\ InitCalls
  /\ fmtPc = "idle"
  /\ fmtInput = Undefined
  /\ fmtOutput = <<>>
  /\ InitProbes

\* ------------------------------------------------------------------------
\* Actions
\* ------------------------------------------------------------------------
\* one AbortController shared by every call
ControlledShared(c) == Calls

\* The calls whose fetch is wired to the AbortController created by call c:
\* the controller is a local of callPaperMcp, passed to that call's fetch only.
Controlled(c) == {c}

\* a failed call that puts its request on the wire once more
RetryOnFailure(c, r) ==
  IF r.ok THEN <<>> ELSE SelectSeq(sent, LAMBDA e : Get(e, "id").v = heard[c][1].id)

\* the requests a call sends once its outcome r is known: none, every path
\* of callPaperMcp and of execute returns, there is no loop and no retry
Retry(c, r) == <<>>

\* callPaperMcp returns r to execute, which resolves with the tool result
Return(c, r, ev) ==
  /\ sent' = sent \o Retry(c, r)
  /\ pc' = [pc EXCEPT ![c] = "returned"]
  /\ returned' = [returned EXCEPT ![c] = r]
  /\ result' = [result EXCEPT ![c] = ToolResult(tool[c], r)]
  /\ heard' = [heard EXCEPT ![c] = Append(@, ev @@ [signal |-> signal[c]])]

\* a timer that aborts with a reason of its own
AbortReasonOfTimer(why) == IF why = "timeout" THEN TimeoutError ELSE AbortError

\* what the aborted operation rejects with: the timer callback and the abort
\* listener both call controller.abort() without a reason
AbortReason(why) == AbortError

\* controller.abort() of call c: the pending fetch (or body read) it is wired
\* to rejects with an AbortError, which the catch block turns into a failure
AbortController(c, why) ==
  LET hit == {d \in Controlled(c) : InFlight(d)}
      r == CatchResult(AbortReason(why))
  IN  /\ controller' = [controller EXCEPT ![c] = TRUE]
      /\ sent' = sent \o (IF c \in hit THEN Retry(c, r) ELSE <<>>)
      /\ pc' = [d \in Calls |-> IF d \in hit THEN "returned" ELSE pc[d]]
      /\ returned' = [d \in Calls |-> IF d \in hit THEN r ELSE returned[d]]
      /\ result' = [d \in Calls |-> IF d \in hit THEN ToolResult(tool[d], r) ELSE result[d]]
      /\ heard' = [d \in Calls |->
                     IF d \in hit
                     THEN Append(heard[d],
                                 [e |-> "abort", by |-> why, of |-> c,
                                  others |-> {o \in Calls \ {d} : InFlight(o)},
                                  signal |-> IF d = c /\ why = "signal"
                                             THEN "aborted" ELSE signal[d]])
                     ELSE heard[d]]

\* the framework calls tool.execute(toolCallId, params, signal): everything up
\* to the await of fetch
Execute(c, name, params, sig) ==
  /\ pc[c] = "idle"
  /\ tool' = [tool EXCEPT ![c] = name]
  /\ signal' = [signal EXCEPT ![c] = sig]
  /\ LET m == MappedArgs(name, params)
         id == PostIncrement(requestId)
         body == RequestBody(Def(name).mcpName, m.args, id.value)
     IN  IF m.threw
         THEN /\ pc' = [pc EXCEPT ![c] = "rejected"]
              /\ heard' = [heard EXCEPT ![c] = Append(@, [e |-> "threw", params |-> params])]
              /\ UNCHANGED <<requestId, timer, controller, listener, returned, result, sent>>
         ELSE /\ requestId' = id.next
              /\ timer' = [timer EXCEPT ![c] = "armed"]
              /\ controller' = [controller EXCEPT ![c] = FALSE]
              /\ listener' = [listener EXCEPT ![c] = (sig # "none")]
              /\ sent' = Append(sent, JSONparse(body.v).value)
              /\ pc' = [pc EXCEPT ![c] = "fetch"]
              /\ heard' = [heard EXCEPT ![c] =
                             Append(@, [e |-> "start", params |-> params, signal |-> sig,
                                        id |-> id.value])]
              /\ UNCHANGED <<returned, result>>
  /\ UNCHANGED <<fmtVars, probeVars>>

\* the fetch promise resolves with a response: clearTimeout, then the status
FetchResponds(c, st) ==
  /\ pc[c] = "fetch"
  /\ timer' = [timer EXCEPT ![c] = IF @ = "armed" THEN "cleared" ELSE @]
  /\ IF ~RespOk(st.status)
     THEN Return(c, StatusFailure(st.status, st.statusText), [e |-> "response", st |-> st])
     ELSE /\ pc' = [pc EXCEPT ![c] = "body"]
          /\ heard' = [heard EXCEPT ![c] = Append(@, [e |-> "response", st |-> st])]
          /\ UNCHANGED <<returned, result, sent>>
  /\ UNCHANGED <<requestId, tool, controller, signal, listener, fmtVars, probeVars>>

\* the fetch promise rejects: the catch block (the timer stays armed)
FetchFails(c, err) ==
  /\ pc[c] = "fetch"
  /\ Return(c, CatchResult(err), [e |-> "fetch-error", err |-> err])
  /\ UNCHANGED <<requestId, tool, timer, controller, signal, listener, fmtVars, probeVars>>

\* responses matched to calls by the id their payload carries
AddresseeById(c, b) ==
  LET named == {d \in Calls : /\ heard[d] # <<>> /\ heard[d][1].e = "start"
                              /\ Get(b.payload, "id") = Num(heard[d][1].id)}
  IN  IF named = {} THEN c ELSE CHOOSE d \in named : TRUE

\* the call that gets the body read from call c's response: resp is a local
\* of that call's callPaperMcp, and json.id is never read
Addressee(c, b) == c

\* resp.text() resolves with the whole body
BodyCompletes(c, b) ==
  /\ pc[c] = "body"
  /\ Return(Addressee(c, b), HandleBody(b.text), [e |-> "body", body |-> b])
  /\ UNCHANGED <<requestId, tool, timer, controller, signal, listener, fmtVars, probeVars>>

\* resp.text() rejects
BodyFails(c, err) ==
  /\ pc[c] = "body"
  /\ Return(c, CatchResult(err), [e |-> "body-error", err |-> err])
  /\ UNCHANGED <<requestId, tool, timer, controller, signal, listener, fmtVars, probeVars>>

\* the timer set by setTimeout(() => controller.abort(), TIMEOUT_MS) fires
TimeoutFires(c) ==
  /\ timer[c] = "armed"
  /\ timer' = [timer EXCEPT ![c] = "fired"]
  /\ AbortController(c, "timeout")
  /\ UNCHANGED <<requestId, tool, signal, listener, fmtVars, probeVars>>

\* the framework aborts the signal it gave to call c: the abort event runs the
\* listener registered with { once: true }, if there is one
AbortSignal(c) ==
  /\ signal[c] = "live"
  /\ signal' = [signal EXCEPT ![c] = "aborted"]
  /\ listener' = [listener EXCEPT ![c] = FALSE]
  /\ IF listener[c] THEN AbortController(c, "signal")
     ELSE UNCHANGED <<controller, pc, returned, result, heard, sent>>
  /\ UNCHANGED <<requestId, tool, timer, fmtVars, probeVars>>

\* the bodies that answer call c's own request: the echo of its envelope,
\* under the id of the first request the remote received (the call's own id
\* for the first call, another call's id for every later one)
Echoes(c) ==
  IF pc[c] # "body" THEN {}
  ELSE LET request ==
             sent[CHOOSE i \in 1..Len(sent) : Get(sent[i], "id") = Num(heard[c][1].id)]
       IN  {Body(EchoPayload(request, Get(sent[1], "id").v), "raw")}

NextOf(sc) ==
  \E c \in sc.calls :
    \/ \E name \in sc.names[c] : \E params \in ParamsOf(sc, name) :
         \E sig \in {"none", "live", "aborted"} : Execute(c, name, params, sig)
    \/ \E st \in sc.statuses : FetchResponds(c, st)
    \/ \E err \in sc.fetchErrors : FetchFails(c, err)
    \/ \E b \in sc.bodies \cup Echoes(c) : BodyCompletes(c, b)
    \/ \E err \in BodyErrors : BodyFails(c, err)
    \/ TimeoutFires(c)
    \/ AbortSignal(c)

\* several calls at once, alternately on two tools
Concurrent ==
  Scope(Calls,
        [c \in Calls |-> IF c % 2 = 1 THEN {"paper_get_node_info"} ELSE {"paper_get_basic_info"}],
        FALSE,
        {Status(200, <<Ch("OK")>>), Status(404, <<Ch("Not Found")>>)},
        {Err(<<Ch("fetch failed")>>)}, {Body(HelloPayload, "raw"), Body(ErrorPayload, "sse")})
Next == NextOf(Concurrent)
Spec == Init /\ [][Next]_vars

\* formatMcpResult applied to the raw result drawn by InitFormat
Format ==
  /\ fmtPc = "start"
  /\ fmtOutput' = formatMcpResult(fmtInput)
  /\ fmtPc' = "done"
  /\ UNCHANGED <<fmtInput, callVars, probeVars>>

\* one call at a time, on every tool of the catalog, with params of any shape
Catalog == Scope({1}, [c \in {1} |-> ToolNames], TRUE, Statuses, FetchErrors, Bodies)
NextCatalog == NextOf(Catalog)
SpecCatalog == Init /\ [][NextCatalog]_vars

InitFormat ==
  /\ InitCalls
  /\ fmtPc = "start"
  /\ fmtInput \in FormatInputs
  /\ fmtOutput = <<>>
  /\ InitProbes
NextFormat == Format
SpecFormat == InitFormat /\ [][NextFormat]_vars

\* ------------------------------------------------------------------------
\* isPaperRunning
\* ------------------------------------------------------------------------
\* a call of isPaperRunning: everything up to the await of fetch
IsPaperRunning(p) ==
  /\ probePc[p] = "idle"
  /\ probePc' = [probePc EXCEPT ![p] = "fetch"]
  /\ UNCHANGED <<probeHeard, probeResult, callVars, fmtVars>>

\* what isPaperRunning returns when its await ends with event ev
ProbeReturns(p, value, ev) ==
  /\ probePc[p] = "fetch"
  /\ probePc' = [probePc EXCEPT ![p] = "done"]
  /\ probeHeard' = [probeHeard EXCEPT ![p] = ev]
  /\ probeResult' = [probeResult EXCEPT ![p] = value]
  /\ UNCHANGED <<callVars, fmtVars>>

\* the fetch resolves with a response: return resp.ok (the body is not read)
ProbeResponds(p, st) ==
  ProbeReturns(p, Bool(RespOk(st.status)), [e |-> "response", st |-> st])

\* the fetch rejects: catch { return false }
ProbeFails(p, err) == ProbeReturns(p, Bool(FALSE), [e |-> "fetch-error", err |-> err])

\* AbortSignal.timeout(3000) aborts the fetch, which rejects with a TimeoutError
ProbeTimesOut(p) == ProbeReturns(p, Bool(FALSE), [e |-> "timeout", err |-> TimeoutError])

NextProbe ==
  \E p \in Probes :
    \/ IsPaperRunning(p)
    \/ \E st \in ProbeStatuses : ProbeResponds(p, st)
    \/ \E err \in ProbeErrors : ProbeFails(p, err)
    \/ ProbeTimesOut(p)
SpecProbe == Init /\ [][NextProbe]_vars

\* ------------------------------------------------------------------------
\* Properties
\* ------------------------------------------------------------------------
Last(q) == q[Len(q)]
ContainsSeq(q, sub) ==
  \E i \in 0..(Len(q) - Len(sub)) : SubSeq(q, i + 1, i + Len(sub)) = sub
Began(c) == heard[c] # <<>>
ConformingCall(c) == Began(c) /\ heard[c][1].params \in Conforming(tool[c])
OneTextBlock(content) ==
  Len(content) = 1 /\ content[1].type = "text" /\ content[1].text.t = "string"
EnvelopeId(e) == Get(e, "id").v

\* C1: on every tool and for params of every shape, execute resolves to a
\* result with content and details; it never throws (no call ends rejected).
C1_ExecuteNeverThrows ==
  \A c \in Calls :
    /\ pc[c] # "rejected"
    /\ pc[c] = "returned" => Len(result[c].content) >= 1 /\ result[c].details.t = "object"

\* C2: the ids of the request envelopes strictly increase in the order the
\* calls were started, so no two envelopes carry the same id.
C2_IdsStrictlyIncrease ==
  \A i \in 1..Len(sent) : \A j \in 1..Len(sent) :
    i < j => EnvelopeId(sent[i]) < EnvelopeId(sent[j])
\* two calls were started one while the other awaited the network, and the
\* first of them has failed
C2_Witness ==
  /\ Len(sent) >= 2
  /\ \E c \in Calls : \E d \in Calls :
       /\ pc[c] = "returned" /\ ~returned[c].ok
       /\ pc[d] = "fetch"
       /\ Last(heard[c]).e = "abort" /\ d \in Last(heard[c]).others

\* C3: the timeout bounds the whole call: as long as a call awaits the remote
\* (the response or the rest of its body) its timer is pending, so that the
\* timer fires, aborts the operation and the call returns a failure.
C3_TimeoutBoundsWholeCall ==
  \A c \in Calls : InFlight(c) => timer[c] = "armed"

\* C4: a call whose external signal was aborted by the time it returned
\* (before it started, or while it was in flight) returned a failure, not a
\* success (its request having been aborted).
C4_AbortedSignalFailsCall ==
  \A c \in Calls :
    (pc[c] = "returned" /\ Last(heard[c]).signal = "aborted")
      => ~returned[c].ok

\* C5: with several calls in flight, the abort of one call's signal or the
\* firing of one call's timer changes no other call, and every call that
\* returned got the outcome of its own response (or of its own abort).
OwnOutcome(d) ==
  LET ev == Last(heard[d])
      r == returned[d]
  IN  /\ result[d] = ToolResult(tool[d], r)
      /\ ev.e = "abort" => ev.of = d /\ ~r.ok
      /\ ev.e \in {"response", "fetch-error", "body-error"} => ~r.ok
      /\ ev.e = "body" =>
           IF Has(ev.body.payload, "error")
           THEN /\ ~r.ok
                /\ ContainsSeq(r.error.v, Get(Get(ev.body.payload, "error"), "message").v)
           ELSE r.ok /\ r.result = Get(ev.body.payload, "result")
AbortStepOf(c) ==
  \/ signal[c] = "live" /\ signal'[c] = "aborted"
  \/ timer[c] = "armed" /\ timer'[c] = "fired"
OthersUntouched(c) ==
  \A d \in Calls \ {c} :
    pc'[d] = pc[d] /\ returned'[d] = returned[d] /\ result'[d] = result[d]
C5_AbortIsolated ==
  /\ [](\A d \in Calls : pc[d] = "returned" => OwnOutcome(d))
  /\ [][\A c \in Calls : AbortStepOf(c) => OthersUntouched(c)]_vars
\* one call was aborted while another was in flight, and that other call
\* has since returned the result of its own response
C5_Witness ==
  \E c \in Calls : \E d \in Calls :
    /\ pc[c] = "returned" /\ Last(heard[c]).e = "abort"
    /\ d \in Last(heard[c]).others
    /\ pc[d] = "returned" /\ returned[d].ok
    /\ Last(heard[d]).e = "body"

\* C6: on every tool called with conforming params, a non-2xx answer makes
\* execute return exactly one text block whose text includes the status code
\* and the reason text.
C6_StatusInFailureText ==
  \A c \in Calls :
    ConformingCall(c) =>
      /\ pc[c] # "rejected"
      /\ (pc[c] = "returned" /\ Last(heard[c]).e = "response") =>
            LET st == Last(heard[c]).st
            IN  /\ OneTextBlock(result[c].content)
                /\ Includes(result[c].content[1].text.v, ToString(st.status))
                /\ ContainsSeq(result[c].content[1].text.v, st.statusText)
\* a batch tool, called with a conforming non-empty batch, was answered 500
C6_Witness ==
  \E c \in Calls :
    /\ ConformingCall(c) /\ tool[c] = "paper_update_styles"
    /\ Get(heard[c][1].params, "updates").v # <<>>
    /\ pc[c] = "returned" /\ Last(heard[c]).e = "response"
    /\ Last(heard[c]).st.status = 500

\* C7: on every tool called with conforming params, a refused connection (a
\* fetch failure) makes execute return one text block saying that Paper
\* Desktop is not running, not the generic connection-error text.
C7_NotRunningHint ==
  \A c \in Calls :
    (ConformingCall(c) /\ pc[c] = "returned" /\ Last(heard[c]).e = "fetch-error"
       /\ Last(heard[c]).err \in ConnectionRefused) =>
      /\ OneTextBlock(result[c].content)
      /\ Includes(result[c].content[1].text.v,
                  "Paper Desktop is not running. Open a file in Paper Desktop to start the MCP server (http://127.0.0.1:29979/mcp).")
      /\ ~Includes(result[c].content[1].text.v, "Paper MCP connection error: ")
\* a call's fetch was rejected with an ECONNREFUSED message
C7_Witness ==
  \E c \in Calls :
    /\ ConformingCall(c) /\ tool[c] = "paper_get_jsx"
    /\ pc[c] = "returned" /\ Last(heard[c]).e = "fetch-error"
    /\ Includes(Last(heard[c]).err.message, "ECONNREFUSED")

\* C8: a 2xx payload that carries an error (an object with a message) makes
\* the call return a failure whose message contains the remote message; the
\* tool result is that failure text, and no second request is sent.
CarriesError(payload) ==
  /\ Has(payload, "error")
  /\ Get(payload, "error").t = "object"
  /\ Get(Get(payload, "error"), "message").t = "string"
C9_SseEqualsRaw ==
  \A c \in Calls :
    (pc[c] = "returned" /\ Last(heard[c]).e = "body"
       /\ Last(heard[c]).body.form \in {"sse", "sse-event"}) =>
      returned[c] = HandleBody(BodyText(Last(heard[c]).body.payload, "raw"))

\* C10: for a result whose content array holds at least one recognized item,
\* the formatter returns exactly the recognized items, in order: a text item
\* as a text block, an image item as an image block whose mimeType is the
\* item's string mimeType, or image/png.
Recognized(item) ==
  /\ item.t = "object"
  /\ \/ Get(item, "type") = S("text") /\ Get(item, "text").t = "string"
     \/ Get(item, "type") = S("image") /\ Get(item, "data").t = "string"
BlockFor(item) ==
  IF Get(item, "type") = S("text") THEN TextBlock(Get(item, "text"))
  ELSE ImageBlock(Get(item, "data"),
                  IF Has(item, "mimeType") /\ Get(item, "mimeType").t = "string"
                  THEN Get(item, "mimeType") ELSE S("image/png"))
HasRecognized(res) ==
  /\ res.t = "object"
  /\ Get(res, "content").t = "array"
  /\ \E i \in 1..Len(Get(res, "content").v) : Recognized(Get(res, "content").v[i])
C10_RecognizedItemsInOrder ==
  (fmtPc = "done" /\ HasRecognized(fmtInput)) =>
    LET kept == SelectSeq(Get(fmtInput, "content").v, Recognized)
    IN  fmtOutput = [i \in 1..Len(kept) |-> BlockFor(kept[i])]
\* an image without mimeType after an unrecognized item and before a text
C10_Witness ==
  /\ fmtPc = "done"
  /\ HasRecognized(fmtInput)
  /\ Len(Get(fmtInput, "content").v) = 3
  /\ ~Recognized(Get(fmtInput, "content").v[1])
  /\ Get(Get(fmtInput, "content").v[2], "type") = S("image")
  /\ ~Has(Get(fmtInput, "content").v[2], "mimeType")
  /\ Recognized(Get(fmtInput, "content").v[2])
  /\ Get(Get(fmtInput, "content").v[3], "type") = S("text")
  /\ Len(fmtOutput) = 2

\* C11: the formatter never returns an empty sequence; for a raw result that
\* is not an object, has no content array, has an empty one, or has one with
\* no recognized item, it returns exactly one text block whose text is the
\* indented JSON text of the whole raw result: a string that parses back to it.
PrettyJsonOf(text, x) ==
  /\ text.t = "string"
  /\ \A i \in 1..Len(text.v) : text.v[i].k = "json" => text.v[i].lay = "indented"
  /\ JSONparse(text.v) = [ok |-> TRUE, value |-> x]
C11_FallbackIsPrettyJson ==
  fmtPc = "done" =>
    /\ Len(fmtOutput) >= 1
    /\ ~HasRecognized(fmtInput) =>
         /\ Len(fmtOutput) = 1
         /\ fmtOutput[1].type = "text"
         /\ PrettyJsonOf(fmtOutput[1].text, fmtInput)

\* the request envelope of a call that got as far as fetch, and the
\* arguments it carries
Started(c) == Began(c) /\ heard[c][1].e = "start"
RequestOf(c) == sent[CHOOSE i \in 1..Len(sent) : EnvelopeId(sent[i]) = heard[c][1].id]
Arguments(e) == Get(Get(e, "params"), "arguments")

\* C12: on each of the six tools that rename id to nodeId, the arguments of
\* the request carry nodeId equal to the id the caller gave, and no id key.
RenamesId ==
  {"paper_get_node_info", "paper_get_children", "paper_get_tree_summary",
   "paper_get_screenshot", "paper_get_jsx", "paper_get_fill_image"}
C12_IdSentAsNodeId ==
  \A c \in Calls :
    (Started(c) /\ tool[c] \in RenamesId /\ Has(heard[c][1].params, "id")) =>
      /\ Get(Arguments(RequestOf(c)), "nodeId") = Get(heard[c][1].params, "id")
      /\ ~Has(Arguments(RequestOf(c)), "id")
\* paper_get_jsx was called with an id and a styleFormat, and its request
\* carries nodeId and format
C12_Witness ==
  \E c \in Calls :
    /\ Started(c) /\ tool[c] = "paper_get_jsx"
    /\ Has(heard[c][1].params, "styleFormat")
    /\ Get(Arguments(RequestOf(c)), "nodeId") = S("n1")
    /\ Has(Arguments(RequestOf(c)), "format")

\* C13: isPaperRunning returns true exactly when its probe got a response
\* with a 2xx status; it returns false for any other status, for a refused
\* connection, for the timeout and for any other exception; it never throws.
C13_ProbeTrueIffTwoHundred ==
  \A p \in Probes :
    /\ probePc[p] \in {"idle", "fetch", "done"}
    /\ probePc[p] = "done" =>
         /\ probeResult[p] \in {Bool(TRUE), Bool(FALSE)}
         /\ probeResult[p] = Bool(TRUE) <=>
              /\ probeHeard[p].e = "response"
              /\ probeHeard[p].st.status \in 200..299
\* one probe was answered 204 and returned true, another timed out and
\* returned false
C13_Witness ==
  \E p \in Probes : \E q \in Probes :
    /\ probePc[p] = "done" /\ probeHeard[p].e = "response"
    /\ probeHeard[p].st.status = 204 /\ probeResult[p] = Bool(TRUE)
    /\ probePc[q] = "done" /\ probeHeard[q].e = "timeout"
    /\ probeResult[q] = Bool(FALSE)

\* C14: a call aborted by its timer and a call aborted by its external signal
\* return the same failure, a connection error; neither returns the
\* not-running hint, and neither returns a success.
AbortedBy(c, why) ==
  pc[c] = "returned" /\ Last(heard[c]).e = "abort" /\ Last(heard[c]).by = why
C14_TimeoutLikeCancellation ==
  /\ \A c \in Calls :
       (AbortedBy(c, "timeout") \/ AbortedBy(c, "signal")) =>
         /\ ~returned[c].ok
         /\ returned[c].error.v[1] = Ch("Paper MCP connection error: ")
         /\ ~ContainsSeq(returned[c].error.v, NotRunningHint)
         /\ result[c].content = <<TextBlock(returned[c].error)>>
  /\ \A c \in Calls : \A d \in Calls :
       (AbortedBy(c, "timeout") /\ AbortedBy(d, "signal")) =>
         returned[c] = returned[d] /\ result[c] = result[d]
\* in one run, one call was aborted by its timer and another by its signal
C14_Witness ==
  \E c \in Calls : \E d \in Calls :
    AbortedBy(c, "timeout") /\ AbortedBy(d, "signal")

\* C15: every execute that reaches callPaperMcp puts exactly one request on
\* the wire; whatever the failure (a non-2xx status, a remote error, a
\* transport error, the timeout, a cancellation) no second request follows,
\* and the failure is what execute returns.
RequestsOf(c) == SelectSeq(sent, LAMBDA e : EnvelopeId(e) = heard[c][1].id)
C15_OneRequestPerCall ==
  /\ Len(sent) = Cardinality({c \in Calls : Started(c)})
  /\ \A c \in Calls :
       Started(c) =>
         /\ Len(RequestsOf(c)) = 1
         /\ (pc[c] = "returned" /\ ~returned[c].ok) =>
              /\ result[c].content = <<TextBlock(returned[c].error)>>
              /\ Get(result[c].details, "error") = returned[c].error
\* two calls have failed, one on a remote error and one on its timeout, and
\* two requests are on the wire
C15_Witness ==
  \E c \in Calls : \E d \in Calls :
    /\ pc[c] = "returned" /\ ~returned[c].ok /\ Last(heard[c]).e = "body"
    /\ AbortedBy(d, "timeout")
    /\ Len(sent) = 2

\* C16: the catalog holds exactly the tools the README lists, 12 to read and
\* 8 to write, so every tool a call can be made on is one of them; it has no
\* tool for start_working_on_nodes.
C16_CatalogIsReadmeList ==
  /\ ToolNames = ReadmeRead \cup ReadmeWrite
  /\ Len(paperTools) = Cardinality(ReadmeRead) + Cardinality(ReadmeWrite)
  /\ \A i \in 1..Len(paperTools) : paperTools[i].mcpName # "start_working_on_nodes"
  /\ \A c \in Calls : Started(c) => tool[c] \in ReadmeRead \cup ReadmeWrite

\* C17: what execute returns has one of two shapes and never a mix: on a
\* failure, one text block holding the error string and details that carry
\* that same error and no remote method name; on a success, the formatter's
\* output for the raw result and details that name the tool's remote method
\* and carry no error.
FailureShape(c) ==
  /\ returned[c].error.t = "string"
  /\ result[c].content = <<TextBlock(returned[c].error)>>
  /\ Get(result[c].details, "error") = returned[c].error
  /\ ~Has(result[c].details, "mcpTool")
SuccessShape(c) ==
  /\ result[c].content = formatMcpResult(returned[c].result)
  /\ Get(result[c].details, "mcpTool") = S(Def(tool[c]).mcpName)
  /\ ~Has(result[c].details, "error")
C17_TwoResultShapes ==
  \A c \in Calls :
    pc[c] = "returned" =>
      /\ result[c].details.t = "object"
      /\ IF returned[c].ok THEN SuccessShape(c) /\ ~FailureShape(c)
         ELSE FailureShape(c) /\ ~SuccessShape(c)
\* paper_get_font_family_info succeeded: its result names get_font_family_info
\* and holds the one text block of the remote's content
C17_Witness ==
  \E c \in Calls :
    /\ pc[c] = "returned" /\ returned[c].ok
    /\ tool[c] = "paper_get_font_family_info"
    /\ Get(result[c].details, "mcpTool") = S("get_font_family_info")
    /\ result[c].content = <<TextBlock(S("hello"))>>

\* C18: with several calls in flight, a call returns the outcome of the
\* response to its own request: the body it read is the answer to its own
\* envelope, in whatever order the responses arrive and whatever id the body
\* carries, and what it returns is that body's outcome.
IsEcho(payload) ==
  \E i \in 1..Len(paperTools) :
    Get(payload, "result")
      = ResultOf(<<TextItem(Str(<<Ch("result of "), Ch(paperTools[i].mcpName)>>))>>)
C18_OwnResponse ==
  \A c \in Calls :
    (pc[c] = "returned" /\ Last(heard[c]).e = "body") =>
      LET b == Last(heard[c]).body
      IN  /\ returned[c] = HandleBody(b.text)
          /\ IsEcho(b.payload) =>
               /\ Get(b.payload, "result") = ResultOf(<<TextItem(EchoText(RequestOf(c)))>>)
               /\ returned[c] = Ok(Get(b.payload, "result"))
               /\ result[c].content = <<TextBlock(EchoText(RequestOf(c)))>>
\* the call started second has returned its own answer, read from a body
\* that carries the id of the first call's request, while the first call
\* still awaits its body
C18_Witness ==
  \E c \in Calls : \E d \in Calls :
    /\ pc[c] = "body"
    /\ pc[d] = "returned" /\ Last(heard[d]).e = "body"
    /\ IsEcho(Last(heard[d]).body.payload)
    /\ heard[c][1].id < heard[d][1].id
    /\ Get(Last(heard[d]).body.payload, "id") = Num(heard[c][1].id)
    /\ returned[d].ok

\* what the call parses out of a body: the rest of the first "data: " line, or
\* the whole text; the status it was answered with; the body it read
Parsed(text) ==
  IF DataMatch(text).matched THEN JSONparse(DataMatch(text).group) ELSE JSONparse(text)
Answered(c) == Len(heard[c]) >= 2 /\ heard[c][2].e = "response"
ReadBody(c) == pc[c] = "returned" /\ Last(heard[c]).e = "body"
StatusThenParse(c) ==
  /\ (Answered(c) /\ ~RespOk(heard[c][2].st.status)) =>
       /\ Len(heard[c]) = 2
       /\ returned[c].error.v[1] = Ch("Paper MCP returned ")
       /\ Includes(returned[c].error.v, ToString(heard[c][2].st.status))
  /\ (ReadBody(c) /\ ~Parsed(Last(heard[c]).body.text).ok) =>
       /\ ~returned[c].ok
       /\ returned[c].error.v[1] = Ch("Paper MCP connection error: ")

\* C19 as stated: a call returns a success exactly when the status is 2xx,
\* the body parses to a JSON payload and the payload has no error member; a
\* non-2xx response is reported by its status and its body is not read, an
\* unparseable 2xx body is a tagged failure, and a payload with both an error
\* and a result is a failure.
C19_SuccessIffNoErrorMember ==
  \A c \in Calls :
    pc[c] = "returned" =>
      /\ StatusThenParse(c)
      /\ returned[c].ok <=>
           /\ Answered(c) /\ RespOk(heard[c][2].st.status)
           /\ ReadBody(c)
           /\ Parsed(Last(heard[c]).body.text).ok
           /\ ~Has(Parsed(Last(heard[c]).body.text).value, "error")
      /\ (ReadBody(c) /\ Parsed(Last(heard[c]).body.text).ok
            /\ Has(Parsed(Last(heard[c]).body.text).value, "error")
            /\ Has(Parsed(Last(heard[c]).body.text).value, "result")) => ~returned[c].ok

\* C19, amended: a call returns a success exactly when the status is 2xx, the
\* body parses to a JSON payload that is not null, and the payload's error is
\* absent or falsy; a non-2xx response is reported by its status and its body
\* is not read, an unparseable 2xx body is a tagged failure, and a payload
\* with both a truthy error and a result is a failure.
C19_SuccessIffNoTruthyError ==
  \A c \in Calls :
    pc[c] = "returned" =>
      /\ StatusThenParse(c)
      /\ returned[c].ok <=>
           /\ Answered(c) /\ RespOk(heard[c][2].st.status)
           /\ ReadBody(c)
           /\ Parsed(Last(heard[c]).body.text).ok
           /\ ~Nullish(Parsed(Last(heard[c]).body.text).value)
           /\ ~Truthy(Get(Parsed(Last(heard[c]).body.text).value, "error"))
      /\ (ReadBody(c) /\ Parsed(Last(heard[c]).body.text).ok
            /\ Truthy(Get(Parsed(Last(heard[c]).body.text).value, "error"))
            /\ Has(Parsed(Last(heard[c]).body.text).value, "result")) =>
           /\ ~returned[c].ok
           /\ returned[c].error.v[1] = Ch("Paper MCP error: ")
\* a 200 whose payload has error: null beside a result came back a success
C19_Witness ==
  \E c \in Calls :
    /\ ReadBody(c) /\ returned[c].ok
    /\ Has(Last(heard[c]).body.payload, "error")
    /\ Get(Last(heard[c]).body.payload, "error") = Null
    /\ returned[c].result = Get(Last(heard[c]).body.payload, "result")

\* C20: on paper_set_text_content, paper_rename_nodes and paper_update_styles
\* called with an updates array, the request carries an updates array of the
\* same length and order, every item with its keys renamed (id to nodeId and
\* text to textContent; for paper_update_styles id to a one-element nodeIds
\* list), and no item with an id key.
BatchTools == {"paper_set_text_content", "paper_rename_nodes", "paper_update_styles"}
Renamed(name, u) ==
  CASE name = "paper_set_text_content" ->
         Obj(<<P("nodeId", Get(u, "id")), P("textContent", Get(u, "text"))>>)
    [] name = "paper_rename_nodes" ->
         Obj(<<P("nodeId", Get(u, "id")), P("name", Get(u, "name"))>>)
    [] OTHER ->
         Obj(<<P("nodeIds", Arr(<<Get(u, "id")>>)), P("styles", Get(u, "styles"))>>)
C20_BatchItemsRenamedInOrder ==
  \A c \in Calls :
    (Started(c) /\ tool[c] \in BatchTools
       /\ Get(heard[c][1].params, "updates").t = "array") =>
      LET given == Get(heard[c][1].params, "updates").v
          wired == Get(Arguments(RequestOf(c)), "updates")
      IN  /\ wired.t = "array"
          /\ Len(wired.v) = Len(given)
          /\ \A i \in 1..Len(given) :
               /\ wired.v[i] = Renamed(tool[c], given[i])
               /\ ~Has(wired.v[i], "id")
               /\ ~Has(wired.v[i], "text")
\* paper_update_styles was called with updates for n2 then n1, and the
\* request carries nodeIds [n2] then nodeIds [n1]
C20_Witness ==
  \E c \in Calls :
    /\ Started(c) /\ tool[c] = "paper_update_styles"
    /\ Len(Get(Arguments(RequestOf(c)), "updates").v) = 2
    /\ Get(Get(Arguments(RequestOf(c)), "updates").v[1], "nodeIds") = Arr(<<S("n2")>>)
    /\ Get(Get(Arguments(RequestOf(c)), "updates").v[2], "nodeIds") = Arr(<<S("n1")>>)
    /\ Get(Get(heard[c][1].params, "updates").v[1], "id") = S("n2")

\* C21: once a call has returned, what it returned never changes; a later
\* firing of its timer (left armed when the request threw) or a later abort
\* of the signal it was given (its listener is never removed) changes neither
\* that call's result nor the state of any other call.
LateStepOf(c) == pc[c] = "returned" /\ AbortStepOf(c)
Settled(c) ==
  pc'[c] = pc[c] /\ returned'[c] = returned[c] /\ result'[c] = result[c]
    /\ heard'[c] = heard[c]
C21_LateAbortChangesNothing ==
  [][\A c \in Calls :
       /\ pc[c] = "returned" => Settled(c)
       /\ LateStepOf(c) => (\A d \in Calls : Settled(d)) /\ sent' = sent]_vars
\* a call returned on a failed fetch with its timer armed and its signal
\* live; since then the timer has fired and the signal was aborted, running
\* the listener, while another call is still awaiting its body
C21_Witness ==
  \E c \in Calls : \E d \in Calls :
    /\ pc[c] = "returned" /\ Last(heard[c]).e = "fetch-error"
    /\ Last(heard[c]).signal = "live"
    /\ timer[c] = "fired" /\ signal[c] = "aborted" /\ controller[c]
    /\ pc[d] = "body"

\* C22: every content block of every result of execute is well typed: a text
\* block has a string text, an image block has a string data and a string
\* mimeType, whatever payload the remote answered with.
WellTyped(block) ==
  \/ block.type = "text" /\ block.text.t = "string"
  \/ block.type = "image" /\ block.data.t = "string" /\ block.mimeType.t = "string"
C22_BlocksWellTyped ==
  \A c \in Calls :
    pc[c] = "returned" =>
      \A i \in 1..Len(result[c].content) : WellTyped(result[c].content[i])
====
